---- MODULE Spec2Model ----
(***************************************************************************)
(* Model of the temperature stream consumer                                *)
(* (src/consumers/csv_consumer_mk.py): configuration read from the         *)
(* environment, the rolling window (collections.deque with maxlen),        *)
(* detect_stall, process_message and the run loop of main().               *)
(*                                                                         *)
(* Encoding of data.                                                       *)
(*   A JSON / Python value is a record [t, v]:                             *)
(*     t = "num"    a number, v its value (integers: exact arithmetic)     *)
(*     t = "str"    a string, v the identity of the string                 *)
(*     t = "null"   JSON null                                              *)
(*     t = "absent" the key is not in the object                           *)
(*     t = "None"   Python None                                            *)
(*   A raw Kafka payload is a record [form, temperature, timestamp]:       *)
(*     form = "garbage"  text that is not JSON          e.g.  {oops        *)
(*     form = "array"    JSON that is not an object     e.g.  [1, 2]       *)
(*     form = "object"   a JSON object holding the two fields as given     *)
(***************************************************************************)
EXTENDS Integers, Sequences, FiniteSets, TLC

\* ---------------------------------------------------------------- bounds
MaxWindow == 3
MaxThreshold == 1
MaxEvents == 4
MaxRows == 2

\* ------------------------------------------------------- program constants
HighTempCeiling == 300

\* the status of a process that a KeyboardInterrupt ends: the exception leaves
\* main, the interpreter dies of SIGINT (128 + 2 for the shell, -2 for a parent)
KeyboardInterruptStatus == 130

\* ------------------------------------------------------------ input sets
WindowSizes == 1..MaxWindow
Thresholds == 0..MaxThreshold
Temps == {299, 300, 301}
TimestampIds == {1, 2}

Num(n) == [t |-> "num", v |-> n]
Str(i) == [t |-> "str", v |-> i]
Null == [t |-> "null", v |-> 0]
Absent == [t |-> "absent", v |-> 0]
None == [t |-> "None", v |-> 0]

Payload(f, temp, ts) == [form |-> f, temperature |-> temp, timestamp |-> ts]
NoMessage == Payload("none", Absent, Absent)

\* readings that follow the payload schema: timestamp string, numeric temperature
ValidMessages == {Payload("object", Num(n), Str(i)) : n \in Temps, i \in TimestampIds}
\* a temperature that is a JSON string, e.g. {"timestamp": "t1", "temperature": "hot"}
StringTempMessages == {Payload("object", Str(9), Str(i)) : i \in TimestampIds}
MissingFieldMessages ==
    { Payload("object", Absent, Str(1)), Payload("object", Null, Str(1)),
      Payload("object", Num(300), Absent), Payload("object", Num(301), Null),
      Payload("object", Absent, Absent) }
UnparseableMessages == { Payload("garbage", Absent, Absent) }
NonObjectMessages == { Payload("array", Absent, Absent) }
Messages == ValidMessages \cup StringTempMessages \cup MissingFieldMessages
                \cup UnparseableMessages \cup NonObjectMessages

\* ----------------------------------------------------------------- state
VARIABLES
    env_window_size,   \* os.environ MK_ROLLING_WINDOW_SIZE, as an int
    env_threshold,     \* os.environ MK_STALL_THRESHOLD_F, as a number
    pc,                \* position of main()
    consumer,          \* the Kafka consumer handle: "unbound", "open", "closed"
    close_calls,       \* number of calls of consumer.close()
    window_size,       \* main's local window_size (0 before it is assigned)
    rolling_window,    \* the deque, oldest first
    offset,            \* number of messages pulled from the consumer
    message,           \* the message pulled last
    inflight,          \* TRUE between the pull of a message and the end of process_message
    alerts,            \* alerts logged by the latest call of process_message
    outcome,           \* of the latest call: "none", "returned", "interrupted"
    branch,            \* path the latest call took
    prev_branch,       \* path the call before the latest took
    history,           \* temperatures of the schema-valid events processed so far
    loop_log,          \* what main logged when the loop ended
    exit_status,       \* -1 while the process runs, else its exit status
    uncaught,          \* TRUE once a KeyboardInterrupt was raised that no except clause of main handles
    message_offset,    \* message.offset of the message pulled last
    processed,         \* offsets of the messages process_message has returned for, in order
    \* the producer process (src/producers/csv_producer_mk.py)
    interval_secs,     \* main's interval_secs: SMOKER_INTERVAL_SECONDS as an int
    data_file,         \* the CSV file: [has_temperature: header has the column, rows: its cells]
    p_pc,              \* position of the producer's main()
    g_pc,              \* position of the generator generate_messages
    g_row,             \* index of the row the generator's for loop stands at
    producer,          \* the Kafka producer handle: "unbound", "open", "closed"
    p_close_calls,     \* number of calls of producer.close()
    p_sent,            \* row index of the message sent last (0: none)
    p_cause,           \* why the producer process ended
    p_exit_status      \* -1 while the producer runs, else its exit status

vars == << env_window_size, env_threshold, pc, consumer, close_calls, window_size,
           rolling_window, offset, message, inflight, alerts, outcome, branch,
           prev_branch, history, loop_log, exit_status, uncaught, message_offset, processed,
           interval_secs, data_file, p_pc, g_pc, g_row, producer, p_close_calls,
           p_sent, p_cause, p_exit_status >>

\* the state of the producer process
pvars == << interval_secs, data_file, p_pc, g_pc, g_row, producer, p_close_calls, p_sent, p_cause,
            p_exit_status >>

\* ------------------------------------------------------------ configuration
get_rolling_window_size == env_window_size

get_stall_threshold == env_threshold

\* ------------------------------------------------------------ rolling window
RECURSIVE MaxOf(_)
MaxOf(s) == IF Len(s) = 1 THEN s[1]
            ELSE LET m == MaxOf(Tail(s)) IN IF s[1] >= m THEN s[1] ELSE m

RECURSIVE MinOf(_)
MinOf(s) == IF Len(s) = 1 THEN s[1]
            ELSE LET m == MinOf(Tail(s)) IN IF s[1] <= m THEN s[1] ELSE m

IsNumeric(w) == \A i \in 1..Len(w) : w[i].t = "num"

Values(w) == [i \in 1..Len(w) |-> w[i].v]

\* an append that never evicts
deque_append_unbounded(w, maxlen, x) == Append(w, x)

\* deque(maxlen).append: a maxlen of 0 discards the value, a full deque drops its oldest
deque_append(w, maxlen, x) ==
    IF maxlen = 0 THEN w
    ELSE IF Len(w) >= maxlen THEN Append(Tail(w), x)
    ELSE Append(w, x)

\* ------------------------------------------------------------ detect_stall
\* max()/min() raise ValueError on an empty deque and TypeError when the
\* deque holds a value that is not a number
detect_stall_raises(w) ==
    /\ ~(Len(w) < get_rolling_window_size)
    /\ (w = << >> \/ ~IsNumeric(w))

\* stall test with a strict comparison
detect_stall_strict(w) ==
    IF Len(w) < get_rolling_window_size THEN FALSE
    ELSE MaxOf(Values(w)) - MinOf(Values(w)) < get_stall_threshold

\* stall test that only asks for a non-empty window
detect_stall_nonempty(w) ==
    IF Len(w) = 0 THEN FALSE
    ELSE MaxOf(Values(w)) - MinOf(Values(w)) <= get_stall_threshold

detect_stall(w) ==
    LET WINDOW_SIZE == get_rolling_window_size IN
    IF Len(w) < WINDOW_SIZE THEN FALSE
    ELSE LET temp_range == MaxOf(Values(w)) - MinOf(Values(w)) IN
         temp_range <= get_stall_threshold

\* --------------------------------------------------------- process_message
\* json.loads: garbage raises JSONDecodeError; other JSON is decoded, null to None
json_loads(m) ==
    IF m.form = "garbage" THEN [kind |-> "JSONDecodeError", temperature |-> Absent, timestamp |-> Absent]
    ELSE IF m.form = "array" THEN [kind |-> "list", temperature |-> Absent, timestamp |-> Absent]
    ELSE [kind |-> "dict",
          temperature |-> IF m.temperature.t = "null" THEN None ELSE m.temperature,
          timestamp |-> IF m.timestamp.t = "null" THEN None ELSE m.timestamp]

\* dict.get(key): None when the key is absent
dict_get(x) == IF x.t = "absent" THEN None ELSE x

\* a check of the temperature alone
is_invalid_temperature_only(temperature, timestamp) == temperature = None

\* line 86: temperature is None or timestamp is None
is_invalid(temperature, timestamp) == temperature = None \/ timestamp = None

\* a ceiling test that includes the ceiling
is_high_temperature_inclusive(temperature) == temperature >= HighTempCeiling

\* line 93: temperature > 300
is_high_temperature(temperature) == temperature > HighTempCeiling

\* an alert logged without the timestamp of its event
Alert_without_timestamp(k, ts) == [kind |-> k, ts |-> None]

Alert(k, ts) == [kind |-> k, ts |-> ts]

IsErrorAlert(a) == a.kind \in {"JSON_DECODE_ERROR", "INVALID_MESSAGE", "UNEXPECTED_ERROR"}

\* lines 102-105: except json.JSONDecodeError, then except Exception; every
\* exception class below derives from Exception, KeyboardInterrupt does not
process_message_catches(exc) ==
    exc \in {"JSONDecodeError", "AttributeError", "TypeError", "ValueError"}

Result(w, al, br) == [window |-> w, alerts |-> al, branch |-> br, raised |-> "none"]

\* an exception raised in the try block, the window being w at that point and
\* the alerts al already logged
Raised(w, al, exc) ==
    IF process_message_catches(exc)
    THEN IF exc = "JSONDecodeError"
         THEN Result(w, al \o << Alert("JSON_DECODE_ERROR", None) >>, "json_decode_error")
         ELSE Result(w, al \o << Alert("UNEXPECTED_ERROR", None) >>, "unexpected_error")
    ELSE [window |-> w, alerts |-> al, branch |-> "raised", raised |-> exc]

\* lines 63-67: the length test lets detect_stall go on to max() - min()
evaluates_range(w) == ~(Len(w) < get_rolling_window_size)

\* line 97 is reached: the fields are present and temperature > 300 did not raise
reaches_detect_stall(m) ==
    LET data == json_loads(m) IN
    /\ data.kind = "dict"
    /\ ~is_invalid(dict_get(data.temperature), dict_get(data.timestamp))
    /\ dict_get(data.temperature).t = "num"

\* the whole call: the window it leaves, the alerts it logs in order, the path
\* it took, and the exception it lets escape
process_message(m, w, maxlen) ==
    LET data == json_loads(m) IN
    IF data.kind = "JSONDecodeError"
    THEN Raised(w, << >>, "JSONDecodeError")
    ELSE IF data.kind # "dict"
    THEN \* data.get on a list
         Raised(w, << >>, "AttributeError")
    ELSE
      LET temperature == dict_get(data.temperature)
          timestamp == dict_get(data.timestamp)
      IN
      IF is_invalid(temperature, timestamp)
      THEN Result(w, << Alert("INVALID_MESSAGE", None) >>, "invalid_message")
      ELSE
        LET w2 == deque_append(w, maxlen, temperature) IN
        IF temperature.t # "num"
        THEN \* temperature > 300 on a str, after the append
             Raised(w2, << >>, "TypeError")
        ELSE
          LET high == IF is_high_temperature(temperature.v)
                      THEN << Alert("HIGH_TEMP_ALERT", timestamp) >> ELSE << >>
          IN
          IF detect_stall_raises(w2)
          THEN Raised(w2, high, IF w2 = << >> THEN "ValueError" ELSE "TypeError")
          ELSE IF detect_stall(w2)
          THEN Result(w2, high \o << Alert("STALL_ALERT", timestamp) >>, "processed")
          ELSE Result(w2, high, "processed")

\* line 90 is reached: the fields are present
reaches_append(m) ==
    LET data == json_loads(m) IN
    /\ data.kind = "dict"
    /\ ~is_invalid(dict_get(data.temperature), dict_get(data.timestamp))

\* KeyboardInterrupt is not an Exception: raised inside process_message it
\* leaves the call where it stands. The states it can leave behind: nothing
\* done yet, or the append done and any prefix of the alerts logged.
interrupted_results(m, w, maxlen) ==
    LET full == process_message(m, w, maxlen) IN
    { [window |-> w, alerts |-> << >>, appended |-> FALSE] }
      \cup { [window |-> full.window, alerts |-> SubSeq(full.alerts, 1, k),
              appended |-> reaches_append(m)] : k \in 0..Len(full.alerts) }

IsSchemaValid(m) ==
    /\ m.form = "object"
    /\ m.temperature.t = "num"
    /\ m.timestamp.t = "str"


\* -------------------------------------------------------------------- main
\* create_kafka_consumer (utils.utils_consumer): returns a handle or raises
create_kafka_consumer_outcomes == {"handle", "raise"}

\* the producer process is not part of a run of the consumer
ProducerIdle ==
    /\ interval_secs = 1
    /\ data_file = [has_temperature |-> TRUE, rows |-> << >>]
    /\ p_pc = "IDLE"
    /\ g_pc = "unstarted"
    /\ g_row = 0
    /\ producer = "unbound"
    /\ p_close_calls = 0
    /\ p_sent = 0
    /\ p_cause = "none"
    /\ p_exit_status = -1

\* the consumer process at its start, its window size configured from sizes
ConsumerStart(sizes) ==
    /\ env_window_size \in sizes
    /\ env_threshold \in Thresholds
    /\ pc = "STARTING"
    /\ consumer = "unbound"
    /\ close_calls = 0
    /\ window_size = 0
    /\ rolling_window = << >>
    /\ offset = 0
    /\ message = NoMessage
    /\ inflight = FALSE
    /\ alerts = << >>
    /\ outcome = "none"
    /\ branch = "none"
    /\ prev_branch = "none"
    /\ history = << >>
    /\ loop_log = "none"
    /\ exit_status = -1
    /\ uncaught = FALSE
    /\ message_offset = 0
    /\ processed = << >>

Init == ConsumerStart(WindowSizes) /\ ProducerIdle

\* a deque allocated with another capacity than the configured window size
StartOk_other_capacity ==
    /\ pc = "STARTING"
    /\ consumer = "unbound"
    /\ "handle" \in create_kafka_consumer_outcomes
    /\ window_size' = get_rolling_window_size + 1
    /\ rolling_window' = << >>
    /\ consumer' = "open"
    /\ UNCHANGED << pc, env_window_size, env_threshold, close_calls, offset, message,
                    inflight, alerts, outcome, branch, prev_branch, history, loop_log, exit_status,
                    message_offset, processed, uncaught, pvars >>

\* lines 113-120, the consumer is created; main stands before the try of line 122
StartOk ==
    /\ pc = "STARTING"
    /\ consumer = "unbound"
    /\ "handle" \in create_kafka_consumer_outcomes
    /\ window_size' = get_rolling_window_size
    /\ rolling_window' = << >>
    /\ consumer' = "open"
    /\ UNCHANGED << pc, env_window_size, env_threshold, close_calls, offset, message,
                    inflight, alerts, outcome, branch, prev_branch, history, loop_log, exit_status,
                    message_offset, processed, uncaught, pvars >>

\* lines 113-120, create_kafka_consumer raises: line 120 is outside the try,
\* the exception leaves main and the interpreter exits with status 1
StartFail ==
    /\ pc = "STARTING"
    /\ consumer = "unbound"
    /\ "raise" \in create_kafka_consumer_outcomes
    /\ window_size' = get_rolling_window_size
    /\ rolling_window' = << >>
    /\ pc' = "STOPPED"
    /\ exit_status' = 1
    /\ UNCHANGED << env_window_size, env_threshold, consumer, close_calls, offset,
                    message, inflight, alerts, outcome, branch, prev_branch, history, loop_log,
                    message_offset, processed, uncaught, pvars >>

\* lines 122-123: the try block is entered and the for loop asks for a message
EnterTry ==
    /\ pc = "STARTING"
    /\ consumer = "open"
    /\ pc' = "RUNNING"
    /\ UNCHANGED << env_window_size, env_threshold, consumer, close_calls, window_size,
                    rolling_window, offset, message, inflight, alerts, outcome, branch,
                    prev_branch, history, loop_log, exit_status, message_offset,
                    processed, uncaught, pvars >>

\* KeyboardInterrupt on lines 113-122, outside the try: it leaves main and ends
\* the process. Before line 120 returns there is no handle, and window_size is
\* assigned (line 116) or not yet; after it the handle stays open, finally is
\* never reached.
InterruptAtStartup ==
    /\ pc = "STARTING"
    /\ window_size' \in IF consumer = "unbound"
                         THEN {window_size, get_rolling_window_size}
                         ELSE {window_size}
    /\ uncaught' = TRUE
    /\ pc' = "STOPPED"
    /\ exit_status' = KeyboardInterruptStatus
    /\ UNCHANGED << env_window_size, env_threshold, consumer, close_calls,
                    rolling_window, offset, message, inflight, alerts, outcome, branch,
                    prev_branch, history, loop_log, message_offset, processed, pvars >>

\* an except clause of main catches (lines 127, 129) and logs (lines 128, 130),
\* unless a KeyboardInterrupt arrives in the clause before it has logged: then
\* nothing is logged and that exception propagates to the finally clause
ExceptClause(log) ==
    \/ /\ loop_log' = log
       /\ uncaught' = uncaught
    \/ /\ loop_log' = loop_log
       /\ uncaught' = TRUE

\* a pull that does not wait for the call for the previous message to end
Pull_prefetch(m) ==
    /\ pc = "RUNNING"
    /\ offset < MaxEvents
    /\ message' = m
    /\ inflight' = TRUE
    /\ offset' = offset + 1
    /\ message_offset' = offset + 1
    /\ UNCHANGED processed
    /\ UNCHANGED << env_window_size, env_threshold, pc, consumer, close_calls,
                    window_size, rolling_window, alerts, outcome, branch, prev_branch, history,
                    loop_log, exit_status, uncaught, pvars >>

\* lines 123-125: the iterator delivers the next message
Pull(m) ==
    /\ pc = "RUNNING"
    /\ ~inflight
    /\ offset < MaxEvents
    /\ message' = m
    /\ inflight' = TRUE
    /\ offset' = offset + 1
    /\ message_offset' = offset + 1
    /\ UNCHANGED processed
    /\ UNCHANGED << env_window_size, env_threshold, pc, consumer, close_calls,
                    window_size, rolling_window, alerts, outcome, branch, prev_branch, history,
                    loop_log, exit_status, uncaught, pvars >>

\* line 126, and lines 129-130 for an exception the call lets escape
Process ==
    /\ pc = "RUNNING"
    /\ inflight
    /\ LET r == process_message(message, rolling_window, window_size) IN
         /\ rolling_window' = r.window
         /\ alerts' = r.alerts
         /\ branch' = r.branch
         /\ prev_branch' = branch
         /\ IF r.raised = "none"
            THEN /\ outcome' = "returned"
                 /\ pc' = "RUNNING"
                 /\ loop_log' = loop_log
                 /\ uncaught' = uncaught
            ELSE /\ outcome' = "raised"
                 /\ pc' = "STOPPING_ON_ERROR"
                 /\ ExceptClause("error")
    /\ history' = IF IsSchemaValid(message)
                  THEN Append(history, message.temperature.v) ELSE history
    /\ processed' = Append(processed, message_offset)
    /\ UNCHANGED message_offset
    /\ inflight' = FALSE
    /\ UNCHANGED << env_window_size, env_threshold, consumer, close_calls,
                    window_size, offset, message, exit_status, pvars >>

\* KeyboardInterrupt while process_message runs: lines 127-128
InterruptInProcess ==
    /\ pc = "RUNNING"
    /\ inflight
    /\ \E r \in interrupted_results(message, rolling_window, window_size) :
         /\ rolling_window' = r.window
         /\ alerts' = r.alerts
         /\ history' = IF IsSchemaValid(message) /\ r.appended
                       THEN Append(history, message.temperature.v) ELSE history
    /\ outcome' = "interrupted"
    /\ branch' = "interrupted"
    /\ prev_branch' = branch
    /\ inflight' = FALSE
    /\ pc' = "STOPPING_NORMAL"
    /\ ExceptClause("interrupted")
    /\ UNCHANGED << env_window_size, env_threshold, consumer, close_calls,
                    window_size, offset, message, exit_status,
                    message_offset, processed, pvars >>

\* an interruption handled inside the loop, which then goes on
InterruptAtPull_continues ==
    /\ pc = "RUNNING"
    /\ ~inflight
    /\ loop_log # "interrupted"
    /\ pc' = "RUNNING"
    /\ loop_log' = "interrupted"
    /\ UNCHANGED << env_window_size, env_threshold, consumer, close_calls,
                    window_size, rolling_window, offset, message, inflight, alerts,
                    outcome, branch, prev_branch, history, exit_status,
                    message_offset, processed, uncaught, pvars >>

\* KeyboardInterrupt while the loop waits for the next message: lines 127-128
InterruptAtPull ==
    /\ pc = "RUNNING"
    /\ ~inflight
    /\ pc' = "STOPPING_NORMAL"
    /\ ExceptClause("interrupted")
    /\ UNCHANGED << env_window_size, env_threshold, consumer, close_calls,
                    window_size, rolling_window, offset, message, inflight, alerts,
                    outcome, branch, prev_branch, history, exit_status,
                    message_offset, processed, pvars >>

\* the iterator raises an Exception: lines 129-130
PullError ==
    /\ pc = "RUNNING"
    /\ ~inflight
    /\ pc' = "STOPPING_ON_ERROR"
    /\ ExceptClause("error")
    /\ UNCHANGED << env_window_size, env_threshold, consumer, close_calls,
                    window_size, rolling_window, offset, message, inflight, alerts,
                    outcome, branch, prev_branch, history, exit_status,
                    message_offset, processed, pvars >>

\* the iterator is exhausted: the for loop ends and control reaches finally
EndOfStream ==
    /\ pc = "RUNNING"
    /\ ~inflight
    /\ pc' = "STOPPING_NORMAL"
    /\ UNCHANGED << env_window_size, env_threshold, consumer, close_calls,
                    window_size, rolling_window, offset, message, inflight, alerts,
                    outcome, branch, prev_branch, history, loop_log, exit_status,
                    message_offset, processed, uncaught, pvars >>

\* KeyboardInterrupt inside an except clause of main after it has logged (lines
\* 128, 130): it propagates; the finally clause still runs
InterruptInExcept ==
    /\ pc \in {"STOPPING_NORMAL", "STOPPING_ON_ERROR"}
    /\ loop_log \in {"interrupted", "error"}
    /\ consumer = "open"
    /\ ~uncaught
    /\ uncaught' = TRUE
    /\ UNCHANGED << env_window_size, env_threshold, pc, consumer, close_calls,
                    window_size, rolling_window, offset, message, inflight, alerts,
                    outcome, branch, prev_branch, history, loop_log, exit_status,
                    message_offset, processed, pvars >>

\* KeyboardInterrupt inside the finally clause: before consumer.close() is
\* called (line 132) the handle stays open, after it (line 133) it is closed;
\* either way the exception leaves main and ends the process
InterruptInFinally ==
    /\ pc \in {"STOPPING_NORMAL", "STOPPING_ON_ERROR"}
    /\ uncaught' = TRUE
    /\ pc' = "STOPPED"
    /\ exit_status' = KeyboardInterruptStatus
    /\ UNCHANGED << env_window_size, env_threshold, consumer, close_calls,
                    window_size, rolling_window, offset, message, inflight, alerts,
                    outcome, branch, prev_branch, history, loop_log,
                    message_offset, processed, pvars >>

\* lines 131-132: consumer.close() in the finally clause
Close ==
    /\ pc \in {"STOPPING_NORMAL", "STOPPING_ON_ERROR"}
    /\ consumer = "open"
    /\ consumer' = "closed"
    /\ close_calls' = close_calls + 1
    /\ UNCHANGED << env_window_size, env_threshold, pc, window_size, rolling_window,
                    offset, message, inflight, alerts, outcome, branch, prev_branch, history,
                    loop_log, exit_status, message_offset, processed, uncaught, pvars >>

\* line 133 and the end of main: the process ends with status 0, or, when a
\* KeyboardInterrupt is propagating through the finally clause, by SIGINT
Return ==
    /\ pc \in {"STOPPING_NORMAL", "STOPPING_ON_ERROR"}
    /\ consumer = "closed"
    /\ pc' = "STOPPED"
    /\ exit_status' = IF uncaught THEN KeyboardInterruptStatus ELSE 0
    /\ UNCHANGED << env_window_size, env_threshold, consumer, close_calls, window_size,
                    rolling_window, offset, message, inflight, alerts, outcome, branch,
                    prev_branch, history, loop_log, message_offset, processed,
                    uncaught, pvars >>

Next ==
    \/ StartOk
    \/ StartFail
    \/ EnterTry
    \/ InterruptAtStartup
    \/ \E m \in Messages : Pull(m)
    \/ Process
    \/ InterruptInProcess
    \/ InterruptAtPull
    \/ PullError
    \/ EndOfStream
    \/ InterruptInExcept
    \/ InterruptInFinally
    \/ Close
    \/ Return

Spec == Init /\ [][Next]_vars

\* int(os.getenv("MK_ROLLING_WINDOW_SIZE", 5)) accepts 0: nothing in
\* get_rolling_window_size or main rejects it
AnyWindowSizes == 0..MaxWindow

InitAnyWindowSize == ConsumerStart(AnyWindowSizes) /\ ProducerIdle

SpecAnyWindowSize == InitAnyWindowSize /\ [][Next]_vars

\* ================================================= the producer process
\* src/producers/csv_producer_mk.py. The data file is a header and rows; a
\* cell of the temperature column is Num(n) (text that float() converts),
\* Str(i) (any other text) or None (a row shorter than the header, which
\* csv.DictReader fills with None). A DictReader row holds every column of the
\* header, so "temperature" not in row is true exactly when the header has no
\* such column.
CellValues == { Num(299), Num(301), Str(9), None }

RowsOfLength(n) == [1..n -> CellValues]

DataFiles ==
    { [has_temperature |-> TRUE, rows |-> r] :
         r \in UNION { RowsOfLength(n) : n \in 0..MaxRows } }
      \cup { [has_temperature |-> FALSE, rows |-> [i \in 1..n |-> None]] : n \in 0..MaxRows }

\* get_message_interval returns int(os.getenv("SMOKER_INTERVAL_SECONDS", 1))
\* unchecked: a negative number is accepted
Intervals == {-1, 0, 1}

\* time.sleep(secs) raises ValueError for a negative length
time_sleep_raises(secs) == secs < 0

\* the consumer process is not part of a run of the producer
ConsumerIdle ==
    /\ env_window_size = 1
    /\ env_threshold = 0
    /\ pc = "IDLE"
    /\ consumer = "unbound"
    /\ close_calls = 0
    /\ window_size = 0
    /\ rolling_window = << >>
    /\ offset = 0
    /\ message = NoMessage
    /\ inflight = FALSE
    /\ alerts = << >>
    /\ outcome = "none"
    /\ branch = "none"
    /\ prev_branch = "none"
    /\ history = << >>
    /\ loop_log = "none"
    /\ exit_status = -1
    /\ uncaught = FALSE
    /\ message_offset = 0
    /\ processed = << >>

cvars == << env_window_size, env_threshold, pc, consumer, close_calls, window_size,
            rolling_window, offset, message, inflight, alerts, outcome, branch,
            prev_branch, history, loop_log, exit_status, uncaught, message_offset, processed >>

ProducerInit ==
    /\ ConsumerIdle
    /\ interval_secs \in Intervals
    /\ data_file \in DataFiles
    /\ p_pc = "START"
    /\ g_pc = "unstarted"
    /\ g_row = 0
    /\ producer = "unbound"
    /\ p_close_calls = 0
    /\ p_sent = 0
    /\ p_cause = "none"
    /\ p_exit_status = -1

\* the status the process ends with: sys.exit(n) on lines 72, 75, 86, 93, 99;
\* 0 when main returns after the finally clause; death by SIGINT when a
\* KeyboardInterrupt leaves main
exit_status_of(cause) ==
    CASE cause = "data_file_missing" -> 1
      [] cause = "producer_not_created" -> 3
      [] cause = "topic_error" -> 1
      [] cause = "file_not_found" -> 1
      [] cause = "unexpected_error" -> 3
      [] cause = "send_error" -> 0
      [] cause = "sleep_error" -> 0
      [] cause = "interrupted" -> 0
      [] cause = "uncaught_interrupt" -> KeyboardInterruptStatus

\* float(row["temperature"]) raises ValueError on other text, TypeError on None
float_raises(cell) == cell.t # "num"

\* lines 84-86: the data file does not exist
DataFileMissing ==
    /\ p_pc = "START"
    /\ p_pc' = "EXITED"
    /\ p_cause' = "data_file_missing"
    /\ p_exit_status' = exit_status_of("data_file_missing")
    /\ UNCHANGED << interval_secs, data_file, g_pc, g_row, producer, p_close_calls, p_sent, cvars >>

\* lines 84-90: the data file exists, create_kafka_producer is called next
DataFileExists ==
    /\ p_pc = "START"
    /\ p_pc' = "CREATE_PRODUCER"
    /\ UNCHANGED << interval_secs, data_file, g_pc, g_row, producer, p_close_calls, p_sent, p_cause,
                    p_exit_status, cvars >>

\* lines 88-93: create_kafka_producer returns None
ProducerNotCreated ==
    /\ p_pc = "CREATE_PRODUCER"
    /\ p_pc' = "EXITED"
    /\ p_cause' = "producer_not_created"
    /\ p_exit_status' = exit_status_of("producer_not_created")
    /\ UNCHANGED << interval_secs, data_file, g_pc, g_row, producer, p_close_calls, p_sent, cvars >>

\* lines 88-91: create_kafka_producer returns a producer
ProducerCreated ==
    /\ p_pc = "CREATE_PRODUCER"
    /\ producer' = "open"
    /\ p_pc' = "CREATE_TOPIC"
    /\ UNCHANGED << interval_secs, data_file, g_pc, g_row, p_close_calls, p_sent, p_cause,
                    p_exit_status, cvars >>

\* lines 95-99: create_kafka_topic raises; sys.exit(1) is outside the
\* try/finally of lines 101-113
TopicError ==
    /\ p_pc = "CREATE_TOPIC"
    /\ p_pc' = "EXITED"
    /\ p_cause' = "topic_error"
    /\ p_exit_status' = exit_status_of("topic_error")
    /\ UNCHANGED << interval_secs, data_file, g_pc, g_row, producer, p_close_calls, p_sent, cvars >>

\* lines 95-102: the topic is there, the for loop starts the generator
TopicReady ==
    /\ p_pc = "CREATE_TOPIC"
    /\ p_pc' = "LOOP"
    /\ g_pc' = "open"
    /\ UNCHANGED << interval_secs, data_file, g_row, producer, p_close_calls, p_sent, p_cause,
                    p_exit_status, cvars >>

\* KeyboardInterrupt on lines 78-101, outside the try of main: except Exception
\* (line 97) does not catch it, it leaves main and ends the process; a producer
\* already created stays open
ProducerInterruptOutsideTry ==
    /\ p_pc \in {"START", "CREATE_PRODUCER", "CREATE_TOPIC"}
    /\ p_pc' = "EXITED"
    /\ p_cause' = "uncaught_interrupt"
    /\ p_exit_status' = exit_status_of("uncaught_interrupt")
    /\ UNCHANGED << interval_secs, data_file, g_pc, g_row, producer, p_close_calls, p_sent, cvars >>

\* lines 55-60: the file is opened and the reader stands before the first row
GenOpen ==
    /\ p_pc = "LOOP"
    /\ g_pc = "open"
    /\ g_pc' = "rows"
    /\ g_row' = 1
    /\ UNCHANGED << interval_secs, data_file, p_pc, producer, p_close_calls, p_sent, p_cause,
                    p_exit_status, cvars >>

\* lines 58, 70-72: open raises FileNotFoundError, sys.exit(1); SystemExit
\* passes the except clauses of main and reaches its finally
GenFileNotFound ==
    /\ p_pc = "LOOP"
    /\ g_pc = "open"
    /\ g_pc' = "dead"
    /\ p_pc' = "CLEANUP"
    /\ p_cause' = "file_not_found"
    /\ UNCHANGED << interval_secs, data_file, g_row, producer, p_close_calls, p_sent, p_exit_status, cvars >>

\* lines 58, 73-75: open raises another error (PermissionError), sys.exit(3)
GenOpenError ==
    /\ p_pc = "LOOP"
    /\ g_pc = "open"
    /\ g_pc' = "dead"
    /\ p_pc' = "CLEANUP"
    /\ p_cause' = "unexpected_error"
    /\ UNCHANGED << interval_secs, data_file, g_row, producer, p_close_calls, p_sent, p_exit_status, cvars >>

\* lines 55-60: the rows are exhausted, while True opens the file again
GenEndOfFile ==
    /\ p_pc = "LOOP"
    /\ g_pc = "rows"
    /\ g_row > Len(data_file.rows)
    /\ g_pc' = "open"
    /\ g_row' = 0
    /\ UNCHANGED << interval_secs, data_file, p_pc, producer, p_close_calls, p_sent, p_cause,
                    p_exit_status, cvars >>

\* lines 60-63: a row without the temperature key is skipped
GenSkipRow ==
    /\ p_pc = "LOOP"
    /\ g_pc = "rows"
    /\ g_row <= Len(data_file.rows)
    /\ ~data_file.has_temperature
    /\ g_row' = g_row + 1
    /\ UNCHANGED << interval_secs, data_file, p_pc, g_pc, producer, p_close_calls, p_sent, p_cause,
                    p_exit_status, cvars >>

\* lines 64-66, 73-75: float() raises, sys.exit(3)
GenBadRow ==
    /\ p_pc = "LOOP"
    /\ g_pc = "rows"
    /\ g_row <= Len(data_file.rows)
    /\ data_file.has_temperature
    /\ float_raises(data_file.rows[g_row])
    /\ g_pc' = "dead"
    /\ p_pc' = "CLEANUP"
    /\ p_cause' = "unexpected_error"
    /\ UNCHANGED << interval_secs, data_file, g_row, producer, p_close_calls, p_sent, p_exit_status, cvars >>

\* lines 64-69: the message of the row is yielded
GenYield ==
    /\ p_pc = "LOOP"
    /\ g_pc = "rows"
    /\ g_row <= Len(data_file.rows)
    /\ data_file.has_temperature
    /\ ~float_raises(data_file.rows[g_row])
    /\ g_pc' = "yielded"
    /\ UNCHANGED << interval_secs, data_file, p_pc, g_row, producer, p_close_calls, p_sent, p_cause,
                    p_exit_status, cvars >>

\* lines 103-104: the message is sent; main goes on to time.sleep
Send ==
    /\ p_pc = "LOOP"
    /\ g_pc = "yielded"
    /\ p_sent' = g_row
    /\ p_pc' = "SLEEP"
    /\ UNCHANGED << interval_secs, data_file, g_pc, g_row, producer, p_close_calls, p_cause,
                    p_exit_status, cvars >>

\* lines 105, 102, 60: the sleep ends, the for loop resumes the generator, which
\* goes on to the next row
Sleep ==
    /\ p_pc = "SLEEP"
    /\ ~time_sleep_raises(interval_secs)
    /\ p_pc' = "LOOP"
    /\ g_pc' = "rows"
    /\ g_row' = g_row + 1
    /\ UNCHANGED << interval_secs, data_file, producer, p_close_calls, p_sent, p_cause,
                    p_exit_status, cvars >>

\* an except clause of main catches (lines 106, 108) and logs (lines 107, 109),
\* unless a KeyboardInterrupt arrives in the clause before it has logged: then
\* that exception propagates to the finally clause
ProducerExceptClause(cause) == p_cause' \in {cause, "uncaught_interrupt"}

\* lines 105, 108-109: time.sleep raises ValueError, caught by except Exception
SleepError ==
    /\ p_pc = "SLEEP"
    /\ time_sleep_raises(interval_secs)
    /\ p_pc' = "CLEANUP"
    /\ ProducerExceptClause("sleep_error")
    /\ UNCHANGED << interval_secs, data_file, g_pc, g_row, producer, p_close_calls, p_sent,
                    p_exit_status, cvars >>

\* lines 103, 108-109: producer.send raises an Exception
SendError ==
    /\ p_pc = "LOOP"
    /\ g_pc = "yielded"
    /\ p_pc' = "CLEANUP"
    /\ ProducerExceptClause("send_error")
    /\ UNCHANGED << interval_secs, data_file, g_pc, g_row, producer, p_close_calls, p_sent,
                    p_exit_status, cvars >>

\* lines 106-107: KeyboardInterrupt anywhere inside the try block, the sleep
\* of line 105 included
ProducerInterrupt ==
    /\ p_pc \in {"LOOP", "SLEEP"}
    /\ p_pc' = "CLEANUP"
    /\ ProducerExceptClause("interrupted")
    /\ UNCHANGED << interval_secs, data_file, g_pc, g_row, producer, p_close_calls, p_sent,
                    p_exit_status, cvars >>

\* KeyboardInterrupt inside an except clause of main after it has logged (lines
\* 107, 109): it propagates, the finally clause still runs
ProducerInterruptInExcept ==
    /\ p_pc = "CLEANUP"
    /\ p_cause \in {"interrupted", "send_error", "sleep_error"}
    /\ producer = "open"
    /\ p_cause' = "uncaught_interrupt"
    /\ UNCHANGED << interval_secs, data_file, p_pc, g_pc, g_row, producer, p_close_calls, p_sent,
                    p_exit_status, cvars >>

\* KeyboardInterrupt inside the finally clause: before producer.close() is
\* called (line 111) the producer stays open, after it (lines 112-113) it is
\* closed; either way the exception leaves main and ends the process
ProducerInterruptInFinally ==
    /\ p_pc = "CLEANUP"
    /\ p_pc' = "EXITED"
    /\ p_cause' = "uncaught_interrupt"
    /\ p_exit_status' = exit_status_of("uncaught_interrupt")
    /\ UNCHANGED << interval_secs, data_file, g_pc, g_row, producer, p_close_calls, p_sent, cvars >>

\* lines 110-111: producer.close() in the finally clause
ProducerClose ==
    /\ p_pc = "CLEANUP"
    /\ producer = "open"
    /\ producer' = "closed"
    /\ p_close_calls' = p_close_calls + 1
    /\ UNCHANGED << interval_secs, data_file, p_pc, g_pc, g_row, p_sent, p_cause, p_exit_status, cvars >>

\* lines 112-113 and the end of main, or the exception that was propagating
\* through the finally clause (SystemExit, KeyboardInterrupt) ends the process
ProducerExit ==
    /\ p_pc = "CLEANUP"
    /\ producer = "closed"
    /\ p_pc' = "EXITED"
    /\ p_exit_status' = exit_status_of(p_cause)
    /\ UNCHANGED << interval_secs, data_file, g_pc, g_row, producer, p_close_calls, p_sent, p_cause,
                    cvars >>

\* the steps that are the program running (not a failure of its environment)
ProducerRuns ==
    \/ DataFileExists
    \/ ProducerCreated
    \/ TopicReady
    \/ GenOpen
    \/ GenEndOfFile
    \/ GenSkipRow
    \/ GenBadRow
    \/ GenYield
    \/ Send
    \/ Sleep
    \/ SleepError
    \/ ProducerClose
    \/ ProducerExit

ProducerNext ==
    \/ DataFileMissing
    \/ DataFileExists
    \/ ProducerNotCreated
    \/ ProducerCreated
    \/ TopicError
    \/ TopicReady
    \/ ProducerInterruptOutsideTry
    \/ GenOpen
    \/ GenFileNotFound
    \/ GenOpenError
    \/ GenEndOfFile
    \/ GenSkipRow
    \/ GenBadRow
    \/ GenYield
    \/ Send
    \/ Sleep
    \/ SleepError
    \/ SendError
    \/ ProducerInterrupt
    \/ ProducerInterruptInExcept
    \/ ProducerInterruptInFinally
    \/ ProducerClose
    \/ ProducerExit

\* the interpreter keeps executing the program: a step of the program that
\* stays possible is taken
ProducerSpec == ProducerInit /\ [][ProducerNext]_vars /\ WF_vars(ProducerRuns)

\* ================================================================ claims
CountKind(al, k) == Cardinality({i \in 1..Len(al) : al[i].kind = k})

\* a call of process_message ran to its end in this step (it was not interrupted)
CallCompletes == inflight /\ ~inflight' /\ outcome' # "interrupted"

WindowFull == Len(rolling_window) = get_rolling_window_size

AllIdentical(w) == \A i, j \in 1..Len(w) : w[i] = w[j]

\* C1: after any sequence of consumed events the rolling window never holds
\* more values than the window size configured at startup.
C1_CapacityInvariant == Len(rolling_window) <= env_window_size

\* a full window of at least two values that has already evicted a reading,
\* after valid and malformed events
C1_Witness ==
    /\ Len(rolling_window) = env_window_size
    /\ env_window_size >= 2
    /\ Len(history) > env_window_size
    /\ offset > Len(history)
    /\ outcome = "returned"

\* C2: for every malformed event (unparseable, a missing field, or fields of
\* the wrong type) process_message leaves the rolling window as it was.
C2_MalformedLeavesWindow ==
    [][(CallCompletes /\ ~IsSchemaValid(message)) => rolling_window' = rolling_window]_vars

\* C3: while the window holds fewer than window_size values detect_stall
\* returns false, and a stall alert is logged only once at least window_size
\* valid readings have been pushed.
C3_NoPartialWindowStall ==
    /\ Len(rolling_window) < get_rolling_window_size =>
          /\ ~detect_stall_raises(rolling_window)
          /\ ~detect_stall(rolling_window)
    /\ CountKind(alerts, "STALL_ALERT") > 0 => Len(history) >= env_window_size

\* two identical readings in a window that is not full yet, and no stall alert
C3_Witness ==
    /\ outcome = "returned"
    /\ branch = "processed"
    /\ ~inflight
    /\ Len(rolling_window) = 2
    /\ Len(rolling_window) < env_window_size
    /\ AllIdentical(rolling_window)
    /\ alerts = << >>

\* the window with one value changed by d
Changed(w, i, d) == [w EXCEPT ![i] = Num(w[i].v + d)]

Deltas == { d \in -(MaxThreshold + 1)..(MaxThreshold + 1) :
              d > env_threshold \/ -d > env_threshold }

\* the range of a full numeric window is within the threshold: no two values
\* differ by more than the threshold
RangeWithinThreshold(w) ==
    \A i, j \in 1..Len(w) : w[i].v - w[j].v <= env_threshold

\* C4 as stated: for every full window detect_stall is true iff max - min <=
\* threshold (inclusive), and with all-identical values a change of any single
\* value by more than the threshold makes the result false.
C4_AsStated ==
    (pc # "STARTING" /\ WindowFull /\ IsNumeric(rolling_window)) =>
        /\ detect_stall(rolling_window) <=> RangeWithinThreshold(rolling_window)
        /\ AllIdentical(rolling_window) =>
              \A i \in 1..Len(rolling_window) : \A d \in Deltas :
                  ~detect_stall(Changed(rolling_window, i, d))

\* C4 amended: the same, the second part for windows of at least two values (a
\* window of one value has range 0 whatever the value).
C4_StallIffRangeWithinThreshold ==
    (pc # "STARTING" /\ WindowFull /\ IsNumeric(rolling_window)) =>
        /\ detect_stall(rolling_window) <=> RangeWithinThreshold(rolling_window)
        /\ (AllIdentical(rolling_window) /\ get_rolling_window_size >= 2) =>
              \A i \in 1..Len(rolling_window) : \A d \in Deltas :
                  ~detect_stall(Changed(rolling_window, i, d))

\* a full window whose range equals a positive threshold, reported as a stall
C4_Witness ==
    /\ WindowFull
    /\ env_window_size >= 2
    /\ env_threshold >= 1
    /\ IsNumeric(rolling_window)
    /\ MaxOf(Values(rolling_window)) - MinOf(Values(rolling_window)) = env_threshold
    /\ outcome = "returned"
    /\ ~inflight
    /\ CountKind(alerts, "STALL_ALERT") = 1

Min2(a, b) == IF a <= b THEN a ELSE b

\* the last n temperatures of the valid events processed so far
LastValid(n) == [i \in 1..n |-> Num(history[Len(history) - n + i])]

\* C5: the rolling window equals, in order, the last min(k, window_size)
\* temperatures of the k valid events processed so far.
C5_WindowIsLastValid ==
    rolling_window = LastValid(Min2(Len(history), window_size))

\* C6: for every successfully parsed event exactly one high-temperature
\* alert is logged if temperature > 300 and none otherwise (a reading of
\* exactly 300 logs none), whatever the state of the window.
C6_HighTempAlert ==
    (outcome = "returned" /\ ~inflight) =>
        CountKind(alerts, "HIGH_TEMP_ALERT") =
            IF IsSchemaValid(message) /\ message.temperature.v > 300 THEN 1 ELSE 0

\* a reading above the ceiling arriving in a full, stalled window: both alerts
C6_Witness ==
    /\ outcome = "returned"
    /\ ~inflight
    /\ IsSchemaValid(message)
    /\ message.temperature.v > 300
    /\ WindowFull
    /\ env_window_size >= 2
    /\ alerts = << Alert("HIGH_TEMP_ALERT", message.timestamp),
                   Alert("STALL_ALERT", message.timestamp) >>

\* unparseable payload, or an object lacking (or holding null for) a field
IsMalformed(m) ==
    \/ m.form = "garbage"
    \/ /\ m.form = "object"
       /\ (m.temperature.t \in {"absent", "null"} \/ m.timestamp.t \in {"absent", "null"})

\* C7: a malformed event (unparseable payload or a missing timestamp or
\* temperature field) is recoverable: process_message logs exactly one error
\* for it and raises nothing, the window is untouched, the processor stays in
\* RUNNING, and the event delivered next is processed as any other.
C7_MalformedIsRecoverable ==
    /\ [][(CallCompletes /\ IsMalformed(message)) =>
            /\ outcome' = "returned"
            /\ Len(alerts') = 1
            /\ IsErrorAlert(alerts'[1])
            /\ rolling_window' = rolling_window
            /\ pc' = "RUNNING"]_vars
    /\ [][(CallCompletes /\ branch \in {"json_decode_error", "invalid_message"}
              /\ IsSchemaValid(message)) =>
            /\ outcome' = "returned"
            /\ branch' \in {"processed", "unexpected_error"}
            /\ rolling_window' = deque_append(rolling_window, window_size, message.temperature)
            /\ pc' = "RUNNING"]_vars

\* a malformed event in the middle of a stalled stream: the reading after it
\* is processed and completes the stall window
C7_Witness ==
    /\ prev_branch \in {"json_decode_error", "invalid_message"}
    /\ branch = "processed"
    /\ outcome = "returned"
    /\ pc = "RUNNING"
    /\ env_window_size >= 2
    /\ offset = env_window_size + 1
    /\ CountKind(alerts, "STALL_ALERT") = 1

Stopping == pc \in {"STOPPING_ON_ERROR", "STOPPED"}

\* C8: any unexpected failure that is not a parse failure and not an
\* interruption, while pulling the next event or while processing a pulled
\* (schema-valid) event, ends the run loop: the processor leaves RUNNING for
\* STOPPING_ON_ERROR and processes no further events.
C8_UnexpectedFailureEndsLoop ==
    (loop_log = "error"
        \/ (branch = "unexpected_error" /\ ~inflight /\ IsSchemaValid(message))) => Stopping

\* C9: on every exit path of the consumer the event source handle is
\* released by close() exactly once before the processor reaches STOPPED
\* (stated here for the exit paths on which a handle was acquired).
C9_CloseExactlyOnce ==
    (pc = "STOPPED" /\ consumer # "unbound") => (close_calls = 1 /\ consumer = "closed")

\* C10: when the run loop ends because of an unexpected (fatal) error (and no
\* interruption cuts the shutdown short), cleanup runs and the process
\* terminates with a non-zero exit status.
C10_FatalExitsNonZero ==
    (pc = "STOPPED" /\ loop_log = "error" /\ ~uncaught) =>
        (close_calls = 1 /\ exit_status # 0)

\* what an event leaves behind: pulls, window, alerts
EventState == << offset, message, inflight, rolling_window, alerts, history, processed >>

\* a further KeyboardInterrupt while main shuts down
FurtherInterruption == InterruptInExcept \/ InterruptInFinally

\* C11: an operator interruption received while RUNNING leads to
\* STOPPING_NORMAL, then close(), then STOPPED (the steps of the shutdown it
\* starts, as long as no further interruption arrives); STOPPED is terminal: no
\* event is pulled, the window is not updated and no alert is logged after it.
C11_InterruptionShutsDown ==
    /\ [][(InterruptAtPull \/ InterruptInProcess
               \/ (loop_log # "interrupted" /\ loop_log' = "interrupted")) =>
             (pc = "RUNNING" /\ pc' = "STOPPING_NORMAL" /\ consumer' = "open"
                 /\ close_calls' = 0)]_vars
    /\ [](pc = "STOPPING_NORMAL" => ENABLED (Close \/ Return))
    /\ [][(pc = "STOPPING_NORMAL" /\ ~FurtherInterruption) =>
             /\ EventState' = EventState
             /\ \/ /\ consumer = "open"
                   /\ consumer' = "closed"
                   /\ close_calls' = close_calls + 1
                   /\ pc' = "STOPPING_NORMAL"
                \/ /\ consumer = "closed"
                   /\ close_calls' = close_calls
                   /\ pc' = "STOPPED"]_vars
    /\ [][pc = "STOPPED" => (pc' = "STOPPED" /\ EventState' = EventState)]_vars

\* stopped after an interruption that arrived between two events, the handle
\* closed, two events processed before it
C11_Witness ==
    /\ pc = "STOPPED"
    /\ loop_log = "interrupted"
    /\ ~uncaught
    /\ exit_status = 0
    /\ outcome = "returned"
    /\ consumer = "closed"
    /\ close_calls = 1
    /\ Len(processed) >= 2

\* C12: events are processed one at a time in the order the source delivers
\* them: the call for event i has ended before event i+1 is pulled, and while
\* RUNNING no event is processed twice or skipped.
C12_InOrderOneAtATime ==
    /\ [](processed = [i \in 1..Len(processed) |-> i])
    /\ [](Len(processed) <= offset /\ offset <= Len(processed) + 1)
    /\ [](pc = "RUNNING" => Len(processed) = IF inflight THEN offset - 1 ELSE offset)
    /\ [](inflight => message_offset = offset)
    /\ [][offset' # offset =>
             (~inflight /\ Len(processed) = offset /\ offset' = offset + 1)]_vars
    /\ [][processed' # processed =>
             (inflight /\ processed' = Append(processed, offset))]_vars

\* three events delivered and processed, a fourth in flight
C12_Witness ==
    /\ pc = "RUNNING"
    /\ inflight
    /\ offset = 4
    /\ processed = << 1, 2, 3 >>

\* C13: the range max(window) - min(window) of detect_stall is never
\* evaluated on an empty window, in any reachable state of the consumer.
C13_RangeNeverOnEmptyWindow ==
    (outcome = "returned" /\ ~inflight /\ reaches_detect_stall(message)
        /\ evaluates_range(rolling_window)) => rolling_window # << >>

IsRuleAlert(a) == a.kind \in {"HIGH_TEMP_ALERT", "STALL_ALERT"}

\* C14: each successfully parsed event produces at most two alerts, at most
\* one high-temperature alert and at most one stall alert, the
\* high-temperature alert first, and each of these alerts carries the
\* timestamp of the event that caused it.
C14_AlertsOfAnEvent ==
    (outcome \in {"returned", "interrupted"} /\ ~inflight) =>
        /\ Len(alerts) <= 2
        /\ CountKind(alerts, "HIGH_TEMP_ALERT") <= 1
        /\ CountKind(alerts, "STALL_ALERT") <= 1
        /\ \A i, j \in 1..Len(alerts) :
              (alerts[i].kind = "HIGH_TEMP_ALERT" /\ alerts[j].kind = "STALL_ALERT") => i < j
        /\ \A i \in 1..Len(alerts) :
              IsRuleAlert(alerts[i]) =>
                  (IsSchemaValid(message) /\ alerts[i].ts = message.timestamp)

\* the second of two readings, with another timestamp than the first could
\* have had, raises both alerts, in order, with its own timestamp
C14_Witness ==
    /\ outcome = "returned"
    /\ ~inflight
    /\ prev_branch = "processed"
    /\ message.timestamp = Str(2)
    /\ Len(alerts) = 2
    /\ alerts[1].kind = "HIGH_TEMP_ALERT"
    /\ alerts[2].kind = "STALL_ALERT"
    /\ alerts[1].ts = Str(2)
    /\ alerts[2].ts = Str(2)

\* C16: processing of one event is atomic with respect to interruption: for
\* every valid event whose temperature was pushed into the window, both rules
\* are evaluated and their alerts logged before shutdown begins.
C16_EventAtomicUnderInterruption ==
    [][(inflight /\ ~inflight' /\ IsSchemaValid(message) /\ history' # history) =>
          alerts' = process_message(message, rolling_window, window_size).alerts]_vars

\* C17: in every state of a run the window size detect_stall compares the
\* window length against and the stall threshold equal the values fixed at
\* startup; the size equals the capacity the window was allocated with, so a
\* stall is reported only for a window holding exactly that many values.
C17_ConfigurationFixed ==
    /\ [][env_window_size' = env_window_size /\ env_threshold' = env_threshold]_vars
    /\ [][consumer # "unbound" => window_size' = window_size]_vars
    /\ [](consumer # "unbound" => get_rolling_window_size = window_size)
    /\ [](CountKind(alerts, "STALL_ALERT") > 0 =>
             /\ Len(rolling_window) = window_size
             /\ Len(rolling_window) = get_rolling_window_size
             /\ RangeWithinThreshold(rolling_window))

\* a stall reported for a window of the largest configured size, late in the run
C17_Witness ==
    /\ CountKind(alerts, "STALL_ALERT") = 1
    /\ window_size = MaxWindow
    /\ Len(rolling_window) = MaxWindow
    /\ Len(processed) > MaxWindow
    /\ pc = "RUNNING"

\* the two classes of fatal termination of section 7 of the design
InputMissingCauses == { "data_file_missing", "file_not_found" }

RuntimeFailureCauses ==
    { "producer_not_created", "topic_error", "unexpected_error", "send_error", "sleep_error" }

\* C15: fatal terminations report an exit status that distinguishes the two
\* failure classes: a status the process ends with after an unexpected
\* runtime failure is never a status used for missing input or configuration.
C15_ExitStatusDistinguishesClasses ==
    (p_pc = "EXITED" /\ p_cause \in RuntimeFailureCauses) =>
        \A c \in InputMissingCauses : exit_status_of(c) # p_exit_status

\* C18: generate_messages always makes progress: from any point it eventually
\* yields the next message or the process ends; what it yields follows the
\* row order of the data file and starts over after the last row.
C18_GeneratorMakesProgress ==
    /\ (p_pc = "LOOP" /\ g_pc \in {"open", "rows"}) ~> (g_pc = "yielded" \/ p_pc # "LOOP")
    /\ [][(g_pc # "yielded" /\ g_pc' = "yielded") =>
             (data_file.has_temperature
                 /\ g_row' = IF p_sent < Len(data_file.rows) THEN p_sent + 1 ELSE 1)]_vars

\* C19: once the producer handle has been created, producer.close() is called
\* exactly once on every path by which the producer process ends.
C19_ProducerClosedOnce ==
    (p_pc = "EXITED" /\ producer # "unbound") => (p_close_calls = 1 /\ producer = "closed")

====
